---- MODULE Spec2Model ----
(***************************************************************************)
(* Model of src/lib/services/backends/shared/data.js: the file classifier  *)
(* createFileList and the sync orchestrator fetchAndParseFiles.            *)
(*                                                                         *)
(* Strings that the code inspects character by character (paths, folder    *)
(* paths, extensions) are sequences of one-character strings, so that      *)
(* startsWith, split, pop and the regular expression of createFileList are *)
(* computed rather than assumed.                                           *)
(***************************************************************************)
EXTENDS Integers, Sequences, FiniteSets, TLC

VARIABLES
    allEntryFolders,   \* store allEntryFolders: ordered entry-folder configurations
    allAssetFolders,   \* store allAssetFolders: ordered asset-folder configurations
    files,             \* createFileList: the argument of the last call
    fileList,          \* createFileList: the value returned by the last call
    remoteHash,        \* remote: hash of the latest commit
    remoteTree,        \* remote: path -> content hash (NoSha when the path is absent)
    metaHash,          \* IndexedDB 'meta' store, key last_commit_hash (NoHash when unset)
    fileCache,         \* IndexedDB 'file-cache' store: path -> record (NoRec when absent)
    repository,        \* the repository argument, shared by the invocations
    allEntries,        \* store allEntries
    allAssets,         \* store allAssets
    dataLoaded,        \* store dataLoaded
    sync,              \* per invocation of fetchAndParseFiles: position and local variables
    prev,              \* history: what the previous completed sync published
    mergeIn,           \* merge of one file: the listed file, its cache record, its fetched record
    mergeOut,          \* merge of one file: the file handed to the parser
    siteConfig,        \* store siteConfig: the site configuration object
    i18nCall           \* getI18nConfig: arguments and result of the last call

vars == <<allEntryFolders, allAssetFolders, files, fileList, remoteHash, remoteTree,
          metaHash, fileCache, repository, allEntries, allAssets, dataLoaded, sync, prev,
          mergeIn, mergeOut, siteConfig, i18nCall>>

mergeVars == <<mergeIn, mergeOut>>
i18nVars == <<siteConfig, i18nCall>>
confVars == <<allEntryFolders, allAssetFolders, files, fileList, mergeVars, i18nVars>>
syncVars == <<remoteHash, remoteTree, metaHash, fileCache, repository, allEntries,
              allAssets, dataLoaded, sync, prev>>

(***************************************************************************)
(* Bounds of the model.                                                    *)
(***************************************************************************)
MaxFiles == 2      \* longest file list handed to createFileList on its own
MaxConfigs == 2    \* longest folder-configuration list
MaxHash == 3       \* number of commits the remote goes through

(***************************************************************************)
(* String helpers, as the JavaScript built-ins compute them.               *)
(***************************************************************************)
\* JavaScript undefined, where the code compares it with a string.
Undefined == <<"undefined">>

\* String.prototype.startsWith
StartsWith(s, prefix) ==
    /\ Len(prefix) <= Len(s)
    /\ SubSeq(s, 1, Len(prefix)) = prefix

\* Index of the last occurrence of character c in s, 0 when there is none.
LastIndexOf(s, c) ==
    LET hits == {i \in 1..Len(s) : s[i] = c}
    IN  IF hits = {} THEN 0 ELSE CHOOSE i \in hits : \A j \in hits : j <= i

\* s.split(c).pop(): what follows the last c, the whole of s when c does not occur.
SplitPop(s, c) == SubSeq(s, LastIndexOf(s, c) + 1, Len(s))

\* path.split('/').pop()
FileName(path) == SplitPop(path, "/")

\* name.split('.').pop()
Extension(name) == SplitPop(name, ".")

\* Variant of EnclosingDir with a lazy group, /^(.+?)\//: everything before the first
\* slash that has something before it.
EnclosingDirLazy(path) ==
    LET hits == {i \in 2..Len(path) : path[i] = "/"}
    IN  IF hits = {} THEN Undefined
        ELSE SubSeq(path, 1, (CHOOSE i \in hits : \A j \in hits : i <= j) - 1)

\* path.match(/^(.+)\//)?.[1]: the greedy group is everything before the last slash
\* and has to be non-empty; undefined when the expression does not match.
EnclosingDir(path) ==
    LET k == LastIndexOf(path, "/")
    IN  IF k >= 2 THEN SubSeq(path, 1, k - 1) ELSE Undefined

\* Array.prototype.findLast, as the index of the element found, 0 for undefined.
FindLast(seq, Test(_)) ==
    LET hits == {i \in 1..Len(seq) : Test(seq[i])}
    IN  IF hits = {} THEN 0 ELSE CHOOSE i \in hits : \A j \in hits : j <= i

\* The configuration that marks "no configuration found" (undefined).
NoConfig == [kind |-> "none"]

(***************************************************************************)
(* Values of the optional fields of a file: 0 stands for an absent field.  *)
(***************************************************************************)
NoSha == 0
NoHash == 0
Absent == 0

\* getFileExtension(entryFolderConfig) of contents/parser: the extension the
\* collection expects for its entry files.
GetFileExtension(config) == config.extension

(***************************************************************************)
(* createFileList                                                          *)
(***************************************************************************)
\* The predicate handed to get(allEntryFolders).findLast
EntryFolderTest(config, path) ==
    IF config.folderPath # <<>>
    THEN StartsWith(path, config.folderPath)
    ELSE path \in config.filePathMap

\* The predicate handed to get(allAssetFolders).findLast
AssetFolderTest(config, path) ==
    IF config.entryRelative
    THEN StartsWith(path, config.internalPath \o <<"/">>)
    ELSE EnclosingDir(path) = config.internalPath

\* Variant of EntryFolderConfig with find in place of findLast.
EntryFolderConfigFirst(entryFolders, path) ==
    LET hits == {i \in 1..Len(entryFolders) : EntryFolderTest(entryFolders[i], path)}
    IN  IF hits = {} THEN NoConfig
        ELSE entryFolders[CHOOSE i \in hits : \A j \in hits : i <= j]

\* const entryFolderConfig = get(allEntryFolders).findLast(...)
EntryFolderConfig(entryFolders, path) ==
    LET Test(c) == EntryFolderTest(c, path)
        i == FindLast(entryFolders, Test)
    IN  IF i = 0 THEN NoConfig ELSE entryFolders[i]

\* const mediaFolderConfig = get(allAssetFolders).findLast(...)
MediaFolderConfig(assetFolders, path) ==
    LET Test(c) == AssetFolderTest(c, path)
        i == FindLast(assetFolders, Test)
    IN  IF i = 0 THEN NoConfig ELSE assetFolders[i]

\* The condition of the first if of the forEach body: the file is an entry.
IsEntryFile(entryFolders, path) ==
    LET config == EntryFolderConfig(entryFolders, path)
    IN  /\ config # NoConfig
        /\ \/ path \in config.filePathMap
           \/ Extension(FileName(path)) = GetFileExtension(config)

\* Variant of IsAssetFile that does not look at the entries already listed.
IsAssetFileIgnoringEntries(assetFolders, entryFiles, path) ==
    /\ MediaFolderConfig(assetFolders, path) # NoConfig
    /\ ~StartsWith(FileName(path), <<"+">>)

\* Variant of IsAssetFile that does not look at the leading '+' of the name.
IsAssetFileIgnoringPlus(assetFolders, entryFiles, path) ==
    /\ MediaFolderConfig(assetFolders, path) # NoConfig
    /\ ~\E i \in 1..Len(entryFiles) : entryFiles[i].path = path

\* The condition of the second if of the forEach body, given the entries so far.
IsAssetFile(assetFolders, entryFiles, path) ==
    /\ MediaFolderConfig(assetFolders, path) # NoConfig
    /\ ~StartsWith(FileName(path), <<"+">>)
    /\ ~\E i \in 1..Len(entryFiles) : entryFiles[i].path = path

\* { ...fileInfo, type, config }
Classified(fileInfo, type, config) ==
    [path |-> fileInfo.path, sha |-> fileInfo.sha, meta |-> fileInfo.meta,
     text |-> fileInfo.text, size |-> fileInfo.size, type |-> type, config |-> config]

\* One iteration of files.forEach: acc holds entryFiles and assetFiles.
ClassifyFile(entryFolders, assetFolders, acc, fileInfo) ==
    LET path == fileInfo.path
        entryFiles ==
            IF IsEntryFile(entryFolders, path)
            THEN Append(acc.entryFiles,
                        Classified(fileInfo, "entry", EntryFolderConfig(entryFolders, path)))
            ELSE acc.entryFiles
        assetFiles ==
            IF IsAssetFile(assetFolders, entryFiles, path)
            THEN Append(acc.assetFiles,
                        Classified(fileInfo, "asset", MediaFolderConfig(assetFolders, path)))
            ELSE acc.assetFiles
    IN  [entryFiles |-> entryFiles, assetFiles |-> assetFiles]

RECURSIVE ForEachFile(_, _, _, _)
ForEachFile(entryFolders, assetFolders, acc, rest) ==
    IF rest = <<>>
    THEN acc
    ELSE ForEachFile(entryFolders, assetFolders,
                     ClassifyFile(entryFolders, assetFolders, acc, Head(rest)), Tail(rest))

CreateFileList(entryFolders, assetFolders, fs) ==
    LET acc == ForEachFile(entryFolders, assetFolders,
                           [entryFiles |-> <<>>, assetFiles |-> <<>>], fs)
        all == acc.entryFiles \o acc.assetFiles
    IN  [entryFiles |-> acc.entryFiles, assetFiles |-> acc.assetFiles,
         allFiles |-> all, count |-> Len(all)]

EmptyFileList == [entryFiles |-> <<>>, assetFiles |-> <<>>, allFiles |-> <<>>, count |-> 0]

(***************************************************************************)
(* Paths and folder configurations the classifier is exercised with.       *)
(***************************************************************************)
PathAM == <<"p", "/", "a", ".", "m">>            \* p/a.m
PathPlusM == <<"p", "/", "+", ".", "m">>         \* p/+.m
PathCG == <<"p", "/", "c", ".", "g">>            \* p/c.g
PathPlusG == <<"p", "/", "+", ".", "g">>         \* p/+.g
PathSubDG == <<"p", "/", "s", "/", "d", ".", "g">>   \* p/s/d.g
PathRootG == <<"e", ".", "g">>                   \* e.g
PathPqAM == <<"p", "q", "/", "a", ".", "m">>     \* pq/a.m
PathNoDot == <<"p", "/", "m">>                   \* p/m

AllPaths == {PathAM, PathPlusM, PathCG, PathPlusG, PathSubDG, PathRootG, PathPqAM, PathNoDot}

\* A folder collection: folderPath and the extension of its entry files.
FolderCollection(folderPath, extension) ==
    [folderPath |-> folderPath, filePathMap |-> {}, extension |-> extension]

\* A file collection: the paths of its files; its files are matched by path only.
FileCollection(paths) ==
    [folderPath |-> <<>>, filePathMap |-> paths, extension |-> <<"m">>]

AssetFolder(internalPath, entryRelative) ==
    [internalPath |-> internalPath, entryRelative |-> entryRelative]

EntryFolderChoices ==
    { FolderCollection(<<"p">>, <<"m">>),
      FolderCollection(<<"p">>, <<"g">>),
      FileCollection({PathCG, PathRootG}) }

AssetFolderChoices ==
    { AssetFolder(<<"p">>, FALSE),
      AssetFolder(<<"p">>, TRUE),
      AssetFolder(<<>>, FALSE) }

\* Sequences over S of length at most n.
SeqUpTo(S, n) == UNION {[1..k -> S] : k \in 0..n}

\* A raw file list item, before any metadata is known.
FileInfo(path, sha) ==
    [path |-> path, sha |-> sha, meta |-> Absent, text |-> Absent, size |-> Absent]

Range(seq) == {seq[i] : i \in 1..Len(seq)}

PathsOf(seq) == {seq[i].path : i \in 1..Len(seq)}

MapSeq(seq, F(_)) == [i \in 1..Len(seq) |-> F(seq[i])]

(***************************************************************************)
(* The classifier on its own: any configuration, any file list.            *)
(***************************************************************************)
\* The state of the sync orchestrator before its first run.
NoRec == [sha |-> NoSha, meta |-> Absent, text |-> Absent, size |-> Absent]

SyncPathSeq == <<PathAM, PathCG, PathRootG>>
SyncPaths == Range(SyncPathSeq)

EmptyCache == [q \in SyncPaths |-> NoRec]

Procs == {1, 2}
SeqProcs == {1}

\* History of the invocations that have ended: what the last returned one published,
\* whether the remote is unchanged since that one started, and the hash written by
\* the last invocation when that one failed after writing it (NoHash otherwise).
NoPrev ==
    [entries |-> {}, assets |-> {}, fresh |-> FALSE, abortedHash |-> NoHash,
     branchNamed |-> FALSE, anyFailed |-> FALSE]

\* The repository argument before any sync: line 105 reads databaseName and branch.
RepositoryInfo ==
    [service |-> "github", owner |-> "o", repo |-> "r", databaseName |-> "github:o/r",
     branch |-> ""]

\* The local variables of fetchAndParseFiles before the call.
IdleSync ==
    [pc |-> "idle", branch |-> "", cachedHash |-> NoHash, cachedFileEntries |-> EmptyCache,
     lastHash |-> NoHash, fileList |-> EmptyFileList, fetchingFiles |-> <<>>,
     fetchedFileMap |-> EmptyCache, pubEntries |-> {}, pubAssets |-> {},
     log |-> <<>>, failedAt |-> "", startCache |-> EmptyCache, startEntries |-> {},
     startAssets |-> {}, startLoaded |-> FALSE, listedSha |-> [q \in SyncPaths |-> NoSha],
     stable |-> TRUE, startRepository |-> RepositoryInfo, published |-> 0,
     before |-> NoPrev]

\* Content hashes a path can have on the remote; NoSha: the path is not there.
ShaChoices(path) == IF path = PathAM THEN {NoSha, 1, 2} ELSE {NoSha, 1}

Trees == {t \in [SyncPaths -> {NoSha, 1, 2}] : \A q \in SyncPaths : t[q] \in ShaChoices(q)}

BranchNames == {"", "main"}

SyncEntryFolders == <<FolderCollection(<<"p">>, <<"m">>)>>
SyncAssetFolders == <<AssetFolder(<<"p">>, FALSE)>>

\* No file has been merged.
NoMerge == [type |-> "none"]

\* A value that is undefined, and the value true: neither is an object, the second is
\* truthy.  The fields of a value that is not an object are never read.
UndefinedValue ==
    [kind |-> "undefined", own |-> {}, structure |-> "", locales |-> <<>>,
     default_locale |-> "", save_all_locales |-> FALSE]

TrueValue == [UndefinedValue EXCEPT !.kind = "true"]

\* No call of getI18nConfig yet.
NoFile == [present |-> FALSE, i18n |-> UndefinedValue]

NoResult ==
    [i18nEnabled |-> FALSE, saveAllLocales |-> FALSE, locales |-> <<>>,
     defaultLocale |-> "", structure |-> ""]

NoCall ==
    [called |-> FALSE, initial |-> UndefinedValue, site |-> UndefinedValue,
     collection |-> UndefinedValue, file |-> NoFile, result |-> NoResult]

InitNoMerge ==
    /\ mergeIn = NoMerge
    /\ mergeOut = NoMerge

InitNoI18n ==
    /\ siteConfig = [i18n |-> UndefinedValue]
    /\ i18nCall = NoCall

InitSyncState ==
    /\ remoteHash = 1
    /\ metaHash = NoHash
    /\ fileCache = EmptyCache
    /\ allEntries = {}
    /\ allAssets = {}
    /\ dataLoaded = FALSE
    /\ sync = [p \in Procs |-> IdleSync]
    /\ prev = NoPrev

InitCFL ==
    /\ allEntryFolders \in SeqUpTo(EntryFolderChoices, MaxConfigs)
    /\ allAssetFolders \in SeqUpTo(AssetFolderChoices, MaxConfigs)
    /\ files = <<>>
    /\ fileList = EmptyFileList
    /\ remoteTree = [q \in SyncPaths |-> NoSha]
    /\ repository = RepositoryInfo
    /\ InitSyncState
    /\ InitNoMerge
    /\ InitNoI18n

\* A call of createFileList(files) under the current configuration; one call per
\* behaviour, as the function keeps no state between calls.
CallCreateFileList ==
    /\ files = <<>>
    /\ \E paths \in SeqUpTo(AllPaths, MaxFiles) :
          /\ files' = MapSeq(paths, LAMBDA q : FileInfo(q, 1))
          /\ fileList' = CreateFileList(allEntryFolders, allAssetFolders, files')
    /\ UNCHANGED <<allEntryFolders, allAssetFolders>>
    /\ UNCHANGED syncVars
    /\ UNCHANGED mergeVars
    /\ UNCHANGED i18nVars

NextCFL == CallCreateFileList

SpecCFL == InitCFL /\ [][NextCFL]_vars

(***************************************************************************)
(* Properties of createFileList (checked under SpecCFL).                   *)
(***************************************************************************)
PairwiseDistinctPaths(seq) ==
    \A i, j \in 1..Len(seq) : i # j => seq[i].path # seq[j].path

\* The entry-folder rule as the specification words it: the paths of filePathMap when
\* the configuration has them, else the folder-path prefix.
SpecEntryMatch(config, path) ==
    IF config.filePathMap # {}
    THEN path \in config.filePathMap
    ELSE StartsWith(path, config.folderPath)

SpecEntryAccepts(config, path) ==
    \/ path \in config.filePathMap
    \/ Extension(FileName(path)) = config.extension

\* The asset-folder rule as the specification words it: the path is internalPath, a
\* slash and a file name without slash; or, entry-relative, it starts with
\* internalPath and a slash.
SpecAssetMatch(config, path) ==
    IF config.entryRelative
    THEN StartsWith(path, config.internalPath \o <<"/">>)
    ELSE /\ config.internalPath # <<>>
         /\ path = config.internalPath \o <<"/">> \o FileName(path)
         /\ "/" \notin Range(FileName(path))

\* Index of the last configuration of the list that Match holds for, 0 if none.
LastMatch(configs, Match(_, _), path) ==
    LET hits == {k \in 1..Len(configs) : Match(configs[k], path)}
    IN  IF hits = {} THEN 0 ELSE CHOOSE k \in hits : \A j \in hits : j <= k

\* C6: for a file list with pairwise distinct paths, no path appears more than once
\* in allFiles, and no path is both in entryFiles and in assetFiles.
C6_NoPathTwice ==
    PairwiseDistinctPaths(files) =>
        /\ PairwiseDistinctPaths(fileList.allFiles)
        /\ PathsOf(fileList.entryFiles) \cap PathsOf(fileList.assetFiles) = {}

\* C6 witness: two distinct files are classified, one of them an entry that an
\* asset folder matches as well.
C6_Witness ==
    /\ Len(files) = 2
    /\ PairwiseDistinctPaths(files)
    /\ fileList.count = 2
    /\ \E i \in 1..Len(fileList.entryFiles) :
          /\ LastMatch(allAssetFolders, SpecAssetMatch, fileList.entryFiles[i].path) # 0
          /\ ~StartsWith(FileName(fileList.entryFiles[i].path), <<"+">>)

\* C7: a file is an entry exactly when the last entry-folder configuration matching
\* its path accepts it, and that last matching configuration is the one attached.
C7_LastMatchingEntryFolder ==
    /\ \A i \in 1..Len(files) :
          LET path == files[i].path
              k == LastMatch(allEntryFolders, SpecEntryMatch, path)
          IN  path \in PathsOf(fileList.entryFiles)
                  <=> (k # 0 /\ SpecEntryAccepts(allEntryFolders[k], path))
    /\ \A i \in 1..Len(fileList.entryFiles) :
          LET path == fileList.entryFiles[i].path
              k == LastMatch(allEntryFolders, SpecEntryMatch, path)
          IN  /\ k # 0
              /\ fileList.entryFiles[i].config = allEntryFolders[k]
              /\ fileList.entryFiles[i].type = "entry"

\* C7 witness: two different configurations match an entry's path and the later one
\* is attached.
C7_Witness ==
    /\ Len(allEntryFolders) = 2
    /\ allEntryFolders[1] # allEntryFolders[2]
    /\ \E i \in 1..Len(fileList.entryFiles) :
          /\ SpecEntryMatch(allEntryFolders[1], fileList.entryFiles[i].path)
          /\ SpecEntryAccepts(allEntryFolders[1], fileList.entryFiles[i].path)
          /\ SpecEntryMatch(allEntryFolders[2], fileList.entryFiles[i].path)
          /\ fileList.entryFiles[i].config = allEntryFolders[2]

\* C8: a file is an asset exactly when some asset-folder configuration matches its
\* path, its name does not start with '+' and its path is not an entry; no asset name
\* starts with '+'; a '+' file that matches an entry rule is an entry.
C8_AssetRule ==
    /\ \A i \in 1..Len(files) :
          LET path == files[i].path
          IN  path \in PathsOf(fileList.assetFiles)
                  <=> /\ LastMatch(allAssetFolders, SpecAssetMatch, path) # 0
                      /\ Head(FileName(path)) # "+"
                      /\ path \notin PathsOf(fileList.entryFiles)
    /\ \A i \in 1..Len(fileList.assetFiles) :
          /\ Head(FileName(fileList.assetFiles[i].path)) # "+"
          /\ fileList.assetFiles[i].type = "asset"
    /\ \A i \in 1..Len(files) :
          LET path == files[i].path
              k == LastMatch(allEntryFolders, SpecEntryMatch, path)
          IN  (Head(FileName(path)) = "+" /\ k # 0
                   /\ SpecEntryAccepts(allEntryFolders[k], path))
                  => path \in PathsOf(fileList.entryFiles)

\* C8 witness: a '+' file that an asset folder matches is an entry, another '+' file
\* that an asset folder matches is dropped, and a third file is an asset.
C8_Witness ==
    /\ \E i \in 1..Len(fileList.entryFiles) :
          /\ Head(FileName(fileList.entryFiles[i].path)) = "+"
          /\ LastMatch(allAssetFolders, SpecAssetMatch, fileList.entryFiles[i].path) # 0
    /\ \E i \in 1..Len(files) :
          /\ Head(FileName(files[i].path)) = "+"
          /\ LastMatch(allAssetFolders, SpecAssetMatch, files[i].path) # 0
          /\ files[i].path \notin PathsOf(fileList.allFiles)

\* C9: the configuration attached to an asset is the last one matching under the
\* rule: not entry-relative, the parent directory is internalPath exactly (so no
\* file of a subdirectory and no file without parent directory); entry-relative, the
\* path starts with internalPath and a slash. A file no configuration matches under
\* that rule is no asset.
C9_ParentDirectoryRule ==
    /\ \A i \in 1..Len(fileList.assetFiles) :
          LET path == fileList.assetFiles[i].path
              k == LastMatch(allAssetFolders, SpecAssetMatch, path)
          IN  /\ k # 0
              /\ fileList.assetFiles[i].config = allAssetFolders[k]
    /\ \A i \in 1..Len(files) :
          LET path == files[i].path
          IN  (/\ \E k \in 1..Len(allAssetFolders) :
                     /\ allAssetFolders[k].entryRelative
                     /\ StartsWith(path, allAssetFolders[k].internalPath \o <<"/">>)
               /\ Head(FileName(path)) # "+"
               /\ path \notin PathsOf(fileList.entryFiles))
                  => path \in PathsOf(fileList.assetFiles)
    /\ \A i \in 1..Len(fileList.assetFiles) :
          LET path == fileList.assetFiles[i].path
              config == fileList.assetFiles[i].config
          IN  ~config.entryRelative =>
                  /\ "/" \in Range(path)
                  /\ path = config.internalPath \o <<"/">> \o FileName(path)
                  /\ "/" \notin Range(FileName(path))

\* C9 witness: with only a not entry-relative folder p, the file p/c.g is an asset and
\* the file p/s/d.g of its subdirectory is not.
C9_Witness ==
    /\ allAssetFolders = <<AssetFolder(<<"p">>, FALSE)>>
    /\ PathsOf(files) = {PathCG, PathSubDG}
    /\ PathsOf(fileList.assetFiles) = {PathCG}

(***************************************************************************)
(* fetchAndParseFiles: the collaborators.                                  *)
(***************************************************************************)
\* fetchFileList(): the files of the remote tree, without metadata.
FetchFileList(tree) ==
    MapSeq(SelectSeq(SyncPathSeq, LAMBDA q : tree[q] # NoSha),
           LAMBDA q : FileInfo(q, tree[q]))

\* fetchFileContents(fetchingFiles): one record per requested path, with the content
\* hash of the requested file and the text, size and metadata of that content.
FetchFileContents(fetchingFiles) ==
    [q \in SyncPaths |->
        IF q \in PathsOf(fetchingFiles)
        THEN LET f == CHOOSE f \in Range(fetchingFiles) : f.path = q
             IN  [sha |-> f.sha, meta |-> 1, text |-> f.sha, size |-> f.sha]
        ELSE NoRec]

\* parseEntryFiles: one published entry per file handed over, made of the path, the
\* content hash, the text, the commit metadata and the collection of the file.
ParseEntryFiles(entryFiles) ==
    {[path |-> f.path, sha |-> f.sha, text |-> f.text, meta |-> f.meta,
      config |-> f.config] : f \in Range(entryFiles)}

\* parseAssetFiles: one published asset per file handed over, with all its fields.
ParseAssetFiles(assetFiles) == Range(assetFiles)

(***************************************************************************)
(* fetchAndParseFiles: the steps between two suspension points.            *)
(***************************************************************************)
\* cachedFileEntries.map(([path, data]) => ({ path, ...data }))
CachedFileList(cachedFileEntries) ==
    MapSeq(SelectSeq(SyncPathSeq, LAMBDA q : cachedFileEntries[q] # NoRec),
           LAMBDA q : [path |-> q, sha |-> cachedFileEntries[q].sha,
                       meta |-> cachedFileEntries[q].meta,
                       text |-> cachedFileEntries[q].text,
                       size |-> cachedFileEntries[q].size])

\* classified file lists of the sync under the configuration stores
SyncFileList(fs) == CreateFileList(allEntryFolders, allAssetFolders, fs)

\* Variant of CacheHit with the comparison of the hashes negated.
CacheHitOnOtherHash(cachedHash, lastHash, cachedFileEntries) ==
    /\ cachedHash # NoHash
    /\ cachedHash # lastHash
    /\ \E q \in SyncPaths : cachedFileEntries[q] # NoRec

\* Variant of CacheHit that does not look at the number of cache records.
CacheHitOnEmptyCache(cachedHash, lastHash, cachedFileEntries) ==
    /\ cachedHash # NoHash
    /\ cachedHash = lastHash

\* The condition of the cache-hit branch.
CacheHit(cachedHash, lastHash, cachedFileEntries) ==
    /\ cachedHash # NoHash
    /\ cachedHash = lastHash
    /\ \E q \in SyncPaths : cachedFileEntries[q] # NoRec

\* a ?? b
Coalesce(a, b) == IF a # Absent THEN a ELSE b

\* Object.assign(file, rec): the fields the record has replace those of the file.
Assign(file, rec) ==
    [file EXCEPT !.sha = Coalesce(rec.sha, file.sha),
                 !.meta = Coalesce(rec.meta, file.meta),
                 !.text = Coalesce(rec.text, file.text),
                 !.size = Coalesce(rec.size, file.size)]

\* Variant of RestoreCached that does not compare the content hashes.
RestoreCachedIgnoringSha(file, cachedFiles) ==
    LET rec == cachedFiles[file.path]
    IN  IF rec # NoRec THEN Assign(file, rec) ELSE file

\* if (cachedFiles[path]?.sha === sha) Object.assign(allFiles[index], cachedFiles[path])
RestoreCached(file, cachedFiles) ==
    LET rec == cachedFiles[file.path]
    IN  IF rec # NoRec /\ rec.sha = file.sha THEN Assign(file, rec) ELSE file

\* The forEach over allFiles; the objects of allFiles are those of entryFiles and
\* assetFiles, so all three lists see the restored fields.
RestoreAll(fl, cachedFiles) ==
    [entryFiles |-> MapSeq(fl.entryFiles, LAMBDA f : RestoreCached(f, cachedFiles)),
     assetFiles |-> MapSeq(fl.assetFiles, LAMBDA f : RestoreCached(f, cachedFiles)),
     allFiles |-> MapSeq(fl.allFiles, LAMBDA f : RestoreCached(f, cachedFiles)),
     count |-> fl.count]

\* allFiles.filter(({ meta }) => !meta)
FetchingFiles(allFiles) == SelectSeq(allFiles, LAMBDA f : f.meta = Absent)

\* Variant of EntryFilesToParse that prefers the fetched text and metadata.
EntryFilesToParseFetchedFirst(entryFiles, fetchedFileMap) ==
    MapSeq(entryFiles,
           LAMBDA f : [f EXCEPT !.text = Coalesce(fetchedFileMap[f.path].text, f.text),
                                !.meta = Coalesce(fetchedFileMap[f.path].meta, f.meta)])

\* The argument of parseEntryFiles.
EntryFilesToParse(entryFiles, fetchedFileMap) ==
    MapSeq(entryFiles,
           LAMBDA f : [f EXCEPT !.text = Coalesce(f.text, fetchedFileMap[f.path].text),
                                !.meta = Coalesce(f.meta, fetchedFileMap[f.path].meta)])

\* The argument of parseAssetFiles.
AssetFilesToParse(assetFiles, fetchedFileMap) ==
    MapSeq(assetFiles,
           LAMBDA f : [path |-> f.path, sha |-> f.sha, type |-> f.type, config |-> f.config,
                       name |-> FileName(f.path),
                       meta |-> Coalesce(f.meta, fetchedFileMap[f.path].meta),
                       size |-> Coalesce(f.size, fetchedFileMap[f.path].size),
                       text |-> Coalesce(f.text, fetchedFileMap[f.path].text)])

\* Object.keys(cachedFiles).filter((path) => !usedPaths.includes(path))
UnusedPaths(cachedFiles, allFiles) ==
    {q \in SyncPaths : cachedFiles[q] # NoRec /\ q \notin PathsOf(allFiles)}

\* cacheDB.saveEntries(Object.entries(fetchedFileMap))
SaveEntries(cache, fetchedFileMap) ==
    [q \in SyncPaths |-> IF fetchedFileMap[q] # NoRec THEN fetchedFileMap[q] ELSE cache[q]]

\* Variant of DeleteEntries that deletes nothing.
DeleteEntriesNothing(cache, unusedPaths) == cache

\* cacheDB.deleteEntries(unusedPaths)
DeleteEntries(cache, unusedPaths) ==
    [q \in SyncPaths |-> IF q \in unusedPaths THEN NoRec ELSE cache[q]]

InFlight(p) == sync[p].pc \notin {"idle", "done", "failed"}

\* History: the rank of the next publish step (lines 153-184, or 133-135) among those
\* of the invocations that are running or have run last.
PublishOrder == Cardinality({q \in Procs : sync[q].published > 0}) + 1

\* A collaborator call is appended to the log of the invocation when it is made.
Logged(s, event) == [s EXCEPT !.log = Append(@, event)]

\* What the history keeps of an invocation that returns.
Returned(s) ==
    [entries |-> s.pubEntries, assets |-> s.pubAssets, fresh |-> s.stable,
     abortedHash |-> NoHash, branchNamed |-> prev.branchNamed,
     anyFailed |-> prev.anyFailed]

\* What the history keeps of an invocation that fails.
Aborted(s) ==
    [prev EXCEPT !.fresh = FALSE, !.anyFailed = TRUE,
                 !.abortedHash = IF "setLastCommitHash" \in Range(s.log)
                                 THEN s.lastHash ELSE NoHash]

(***************************************************************************)
(* fetchAndParseFiles: the actions. Each one runs the code from the return *)
(* of one awaited call to the next awaited call (or to the return).  A     *)
(* store operation that is not awaited (metaDB.set, cacheDB.deleteEntries) *)
(* takes effect where it is issued, as does cacheDB.saveEntries.           *)
(***************************************************************************)
\* Lines 153-184 and 186-197 when there is nothing to fetch: publish, then delete the
\* unused cache records.
PublishWithoutFetch(p, s, merged) ==
    LET entries == ParseEntryFiles(EntryFilesToParse(merged.entryFiles, EmptyCache))
        assets == ParseAssetFiles(AssetFilesToParse(merged.assetFiles, EmptyCache))
        unusedPaths == UnusedPaths(s.cachedFileEntries, merged.allFiles)
        t == [Logged(s, "publish") EXCEPT !.pc = "done", !.fileList = merged,
                                          !.published = PublishOrder,
                                          !.pubEntries = entries, !.pubAssets = assets]
    IN  /\ allEntries' = entries
        /\ allAssets' = assets
        /\ dataLoaded' = TRUE
        /\ IF unusedPaths # {}
           THEN /\ fileCache' = DeleteEntries(fileCache, unusedPaths)
                /\ sync' = [sync EXCEPT ![p] = Logged(t, "deleteEntries")]
                /\ prev' = Returned(t)
           ELSE /\ fileCache' = fileCache
                /\ sync' = [sync EXCEPT ![p] = t]
                /\ prev' = Returned(t)

\* Variant of PublishNothing that leaves dataLoaded as it is.
PublishNothingNotLoaded(p, s, fl) ==
    LET t == [Logged(s, "publish") EXCEPT !.pc = "done", !.fileList = fl,
                                          !.published = PublishOrder]
    IN  /\ allEntries' = {}
        /\ allAssets' = {}
        /\ dataLoaded' = dataLoaded
        /\ fileCache' = fileCache
        /\ sync' = [sync EXCEPT ![p] = t]
        /\ prev' = Returned(t)

\* Lines 132-138: no file found; empty lists are published and the function returns.
PublishNothing(p, s, fl) ==
    LET t == [Logged(s, "publish") EXCEPT !.pc = "done", !.fileList = fl,
                                          !.published = PublishOrder]
    IN  /\ allEntries' = {}
        /\ allAssets' = {}
        /\ dataLoaded' = TRUE
        /\ fileCache' = fileCache
        /\ sync' = [sync EXCEPT ![p] = t]
        /\ prev' = Returned(t)

\* History: the content hash each classified file had in the file list, before the
\* cache records were restored onto the files.
ListedSha(fl) ==
    [q \in SyncPaths |->
        IF q \in PathsOf(fl.allFiles)
        THEN (CHOOSE f \in Range(fl.allFiles) : f.path = q).sha
        ELSE NoSha]

\* Lines 131-151, from the classified file list fl to the call of fetchFileContents,
\* or to the return when there is nothing to fetch.
AfterFileList(p, s, fl) ==
    IF fl.count = 0
    THEN PublishNothing(p, s, fl)
    ELSE LET merged == RestoreAll(fl, s.cachedFileEntries)
             fetchingFiles == FetchingFiles(merged.allFiles)
             listed == [s EXCEPT !.listedSha = ListedSha(fl)]
         IN  IF fetchingFiles # <<>>
             THEN /\ sync' = [sync EXCEPT ![p] =
                         [Logged(listed, "fetchFileContents") EXCEPT
                             !.pc = "contents", !.fileList = merged,
                             !.fetchingFiles = fetchingFiles]]
                  /\ UNCHANGED <<allEntries, allAssets, dataLoaded, fileCache, prev>>
             ELSE PublishWithoutFetch(p, listed, merged)

\* The call of fetchAndParseFiles: line 105, up to await metaDB.get.
Start(p) ==
    /\ UNCHANGED confVars
    /\ ~InFlight(p)
    /\ sync' = [sync EXCEPT ![p] =
            [IdleSync EXCEPT !.pc = "metaGet", !.branch = repository.branch,
                             !.startRepository = repository,
                             !.startCache = fileCache, !.startEntries = allEntries,
                             !.startAssets = allAssets, !.startLoaded = dataLoaded,
                             !.before = prev]]
    /\ UNCHANGED <<remoteHash, remoteTree, metaHash, fileCache, repository, allEntries,
                   allAssets, dataLoaded, prev>>

\* Line 108: metaDB.get('last_commit_hash') returns.
MetaGetReturns(p) ==
    /\ UNCHANGED confVars
    /\ sync[p].pc = "metaGet"
    /\ sync' = [sync EXCEPT ![p].pc = "cacheEntries", ![p].cachedHash = metaHash]
    /\ UNCHANGED <<remoteHash, remoteTree, metaHash, fileCache, repository, allEntries,
                   allAssets, dataLoaded, prev>>

\* Lines 109-119: cacheDB.entries() returns; the next call is fetchDefaultBranchName
\* when the branch is not known and fetchLastCommitHash when it is.
CacheEntriesReturns(p) ==
    /\ UNCHANGED confVars
    /\ sync[p].pc = "cacheEntries"
    /\ LET s == [sync[p] EXCEPT !.cachedFileEntries = fileCache]
       IN  sync' = [sync EXCEPT ![p] =
               IF s.branch = ""
               THEN [Logged(s, "fetchDefaultBranchName") EXCEPT !.pc = "branch"]
               ELSE [Logged(s, "fetchLastCommitHash") EXCEPT !.pc = "hash"]]
    /\ UNCHANGED <<remoteHash, remoteTree, metaHash, fileCache, repository, allEntries,
                   allAssets, dataLoaded, prev>>

\* Variant of BranchReturns that keeps the name in the local variable only.
BranchReturnsNotStored(p) ==
    /\ UNCHANGED confVars
    /\ sync[p].pc = "branch"
    /\ \E name \in BranchNames :
          /\ prev' = [prev EXCEPT !.branchNamed = @ \/ name # ""]
          /\ sync' = [sync EXCEPT ![p] =
                 [Logged(sync[p], "fetchLastCommitHash") EXCEPT !.pc = "hash", !.branch = name]]
    /\ UNCHANGED <<remoteHash, remoteTree, metaHash, fileCache, allEntries, allAssets,
                   dataLoaded, repository>>

\* Lines 114-119: fetchDefaultBranchName returns a name.
BranchReturns(p) ==
    /\ UNCHANGED confVars
    /\ sync[p].pc = "branch"
    /\ \E name \in BranchNames :
          /\ repository' = [repository EXCEPT !.branch = name]
          /\ prev' = [prev EXCEPT !.branchNamed = @ \/ name # ""]
          /\ sync' = [sync EXCEPT ![p] =
                 [Logged(sync[p], "fetchLastCommitHash") EXCEPT !.pc = "hash", !.branch = name]]
    /\ UNCHANGED <<remoteHash, remoteTree, metaHash, fileCache, allEntries, allAssets,
                   dataLoaded>>

\* Lines 119-151: fetchLastCommitHash returns. On a cache hit the file list comes from
\* the cache records and the code runs on to fetchFileContents or to the end; else
\* fetchFileList is called.
HashReturns(p) ==
    /\ UNCHANGED confVars
    /\ sync[p].pc = "hash"
    /\ LET s == [sync[p] EXCEPT !.lastHash = remoteHash]
       IN  IF CacheHit(s.cachedHash, s.lastHash, s.cachedFileEntries)
           THEN AfterFileList(p, s, SyncFileList(CachedFileList(s.cachedFileEntries)))
           ELSE /\ sync' = [sync EXCEPT ![p] =
                       [Logged(s, "fetchFileList") EXCEPT !.pc = "list"]]
                /\ UNCHANGED <<allEntries, allAssets, dataLoaded, fileCache, prev>>
    /\ UNCHANGED <<remoteHash, remoteTree, metaHash, repository>>

\* Variant of FileListReturns that does not set last_commit_hash.
FileListReturnsHashNotSet(p) ==
    /\ UNCHANGED confVars
    /\ sync[p].pc = "list"
    /\ metaHash' = metaHash
    /\ AfterFileList(p, sync[p], SyncFileList(FetchFileList(remoteTree)))
    /\ UNCHANGED <<remoteHash, remoteTree, repository>>

\* Lines 127-151: fetchFileList returns; last_commit_hash is set and the code runs on
\* to fetchFileContents or to the end.
FileListReturns(p) ==
    /\ UNCHANGED confVars
    /\ sync[p].pc = "list"
    /\ metaHash' = sync[p].lastHash
    /\ AfterFileList(p, Logged(sync[p], "setLastCommitHash"),
                     SyncFileList(FetchFileList(remoteTree)))
    /\ UNCHANGED <<remoteHash, remoteTree, repository>>

\* Variant of FileContentsReturns that does not publish over the outputs of an
\* invocation that resolved a newer commit hash.
FileContentsReturnsUnlessNewer(p) ==
    /\ UNCHANGED confVars
    /\ sync[p].pc = "contents"
    /\ LET s == sync[p]
           fetchedFileMap == FetchFileContents(s.fetchingFiles)
           entries == ParseEntryFiles(EntryFilesToParse(s.fileList.entryFiles, fetchedFileMap))
           assets == ParseAssetFiles(AssetFilesToParse(s.fileList.assetFiles, fetchedFileMap))
           newer == \E q \in Procs : sync[q].published > 0 /\ sync[q].lastHash > s.lastHash
       IN  /\ allEntries' = IF newer THEN allEntries ELSE entries
           /\ allAssets' = IF newer THEN allAssets ELSE assets
           /\ dataLoaded' = TRUE
           /\ fileCache' = SaveEntries(fileCache, fetchedFileMap)
           /\ sync' = [sync EXCEPT ![p] =
                  [Logged(Logged(s, "publish"), "saveEntries") EXCEPT
                      !.pc = "save", !.fetchedFileMap = fetchedFileMap,
                      !.published = PublishOrder,
                      !.pubEntries = entries, !.pubAssets = assets]]
    /\ UNCHANGED <<remoteHash, remoteTree, metaHash, repository, prev>>

\* Lines 151-191: fetchFileContents returns; the entries and assets are published and
\* the fetched records saved.
FileContentsReturns(p) ==
    /\ UNCHANGED confVars
    /\ sync[p].pc = "contents"
    /\ LET s == sync[p]
           fetchedFileMap == FetchFileContents(s.fetchingFiles)
           entries == ParseEntryFiles(EntryFilesToParse(s.fileList.entryFiles, fetchedFileMap))
           assets == ParseAssetFiles(AssetFilesToParse(s.fileList.assetFiles, fetchedFileMap))
       IN  /\ allEntries' = entries
           /\ allAssets' = assets
           /\ dataLoaded' = TRUE
           /\ fileCache' = SaveEntries(fileCache, fetchedFileMap)
           /\ sync' = [sync EXCEPT ![p] =
                  [Logged(Logged(s, "publish"), "saveEntries") EXCEPT
                      !.pc = "save", !.fetchedFileMap = fetchedFileMap,
                      !.published = PublishOrder,
                      !.pubEntries = entries, !.pubAssets = assets]]
    /\ UNCHANGED <<remoteHash, remoteTree, metaHash, repository, prev>>

\* Lines 191-197: cacheDB.saveEntries returns; the unused records are deleted.
SaveEntriesReturns(p) ==
    /\ UNCHANGED confVars
    /\ sync[p].pc = "save"
    /\ LET s == sync[p]
           unusedPaths == UnusedPaths(s.cachedFileEntries, s.fileList.allFiles)
           t == [s EXCEPT !.pc = "done"]
       IN  /\ IF unusedPaths # {}
              THEN /\ fileCache' = DeleteEntries(fileCache, unusedPaths)
                   /\ sync' = [sync EXCEPT ![p] = Logged(t, "deleteEntries")]
              ELSE /\ fileCache' = fileCache
                   /\ sync' = [sync EXCEPT ![p] = t]
           /\ prev' = Returned(t)
    /\ UNCHANGED <<remoteHash, remoteTree, metaHash, repository, allEntries, allAssets,
                   dataLoaded>>

\* Variant of CollaboratorFails that takes back last_commit_hash on a failure.
CollaboratorFailsClearsHash(p) ==
    /\ UNCHANGED confVars
    /\ sync[p].pc \in {"branch", "hash", "list", "contents"}
    /\ sync' = [sync EXCEPT ![p].pc = "failed", ![p].failedAt = sync[p].pc]
    /\ prev' = Aborted(sync[p])
    /\ metaHash' = IF sync[p].pc = "contents" THEN NoHash ELSE metaHash
    /\ UNCHANGED <<remoteHash, remoteTree, fileCache, repository, allEntries,
                   allAssets, dataLoaded>>

\* Variant of CollaboratorFails that publishes empty lists on a failure.
CollaboratorFailsPublishesNothing(p) ==
    /\ UNCHANGED confVars
    /\ sync[p].pc \in {"branch", "hash", "list", "contents"}
    /\ sync' = [sync EXCEPT ![p].pc = "failed", ![p].failedAt = sync[p].pc]
    /\ prev' = Aborted(sync[p])
    /\ allEntries' = {}
    /\ allAssets' = {}
    /\ dataLoaded' = TRUE
    /\ UNCHANGED <<remoteHash, remoteTree, metaHash, fileCache, repository>>

\* An awaited collaborator call rejects: the exception leaves fetchAndParseFiles.
CollaboratorFails(p) ==
    /\ UNCHANGED confVars
    /\ sync[p].pc \in {"branch", "hash", "list", "contents"}
    /\ sync' = [sync EXCEPT ![p].pc = "failed", ![p].failedAt = sync[p].pc]
    /\ prev' = Aborted(sync[p])
    /\ UNCHANGED <<remoteHash, remoteTree, metaHash, fileCache, repository, allEntries,
                   allAssets, dataLoaded>>

\* Somebody pushes a commit to the remote.
RemoteCommit ==
    /\ UNCHANGED confVars
    /\ remoteHash < MaxHash
    /\ remoteHash' = remoteHash + 1
    /\ remoteTree' \in Trees
    /\ sync' = [p \in Procs |-> [sync[p] EXCEPT !.stable = FALSE]]
    /\ prev' = [prev EXCEPT !.fresh = FALSE]
    /\ UNCHANGED <<metaHash, fileCache, repository, allEntries, allAssets, dataLoaded>>

Init ==
    /\ allEntryFolders = SyncEntryFolders
    /\ allAssetFolders = SyncAssetFolders
    /\ files = <<>>
    /\ fileList = EmptyFileList
    /\ remoteTree \in Trees
    /\ repository \in {[RepositoryInfo EXCEPT !.branch = name] : name \in BranchNames}
    /\ InitSyncState
    /\ InitNoMerge
    /\ InitNoI18n

\* One invocation at a time: the caller awaits a sync before it starts the next.
Next ==
    \/ \E p \in SeqProcs :
          \/ Start(p)
          \/ MetaGetReturns(p)
          \/ CacheEntriesReturns(p)
          \/ BranchReturns(p)
          \/ HashReturns(p)
          \/ FileListReturns(p)
          \/ FileContentsReturns(p)
          \/ SaveEntriesReturns(p)
          \/ CollaboratorFails(p)
    \/ RemoteCommit

Spec == Init /\ [][Next]_vars

(***************************************************************************)
(* Properties of fetchAndParseFiles (checked under Spec).                  *)
(***************************************************************************)
Called(s, event) == event \in Range(s.log)

\* Position of the first occurrence of event in the log, 0 when it is not there.
LogIndex(s, event) ==
    IF Called(s, event) THEN CHOOSE i \in 1..Len(s.log) : s.log[i] = event /\
                                 \A j \in 1..(i - 1) : s.log[j] # event
    ELSE 0

\* The invocation has resolved the commit hash and chosen its source.
HashResolved(s) == s.lastHash # NoHash

\* The invocation has classified its file list.
HasFileList(s) ==
    \/ s.pc \in {"contents", "save", "done"}
    \/ s.pc = "failed" /\ s.failedAt = "contents"

CachedPaths(cache) == {q \in SyncPaths : cache[q] # NoRec}

\* C1: when the stored last_commit_hash equals the hash fetchLastCommitHash returned
\* and the file cache holds a record, fetchFileList is not called in that sync and
\* the file list comes from the cache records only.
C1_CacheHitSkipsFileList ==
    \A p \in Procs :
        LET s == sync[p]
        IN  (/\ HashResolved(s)
             /\ s.cachedHash = s.lastHash
             /\ CachedPaths(s.cachedFileEntries) # {})
                => /\ ~Called(s, "fetchFileList")
                   /\ \A i \in 1..Len(s.fileList.allFiles) :
                         LET f == s.fileList.allFiles[i]
                         IN  /\ f.path \in CachedPaths(s.cachedFileEntries)
                             /\ f.sha = s.cachedFileEntries[f.path].sha

\* C1 witness: a sync has returned on the cache-hit path with a file list.
C1_Witness ==
    \E p \in Procs :
        /\ sync[p].pc = "done"
        /\ sync[p].cachedHash = sync[p].lastHash
        /\ CachedPaths(sync[p].cachedFileEntries) # {}
        /\ sync[p].fileList.count > 0
        /\ ~Called(sync[p], "fetchFileList")

\* C2: a sync that starts with an empty file cache and gets to choose its source
\* calls fetchFileList, whether or not the stored hash equals the resolved one.
C2_EmptyCacheFetchesFileList ==
    \A p \in Procs :
        LET s == sync[p]
        IN  (HashResolved(s) /\ CachedPaths(s.startCache) = {})
                => Called(s, "fetchFileList")

\* C2 witness: a sync started with an empty cache and a stored hash equal to the
\* resolved one, and has called fetchFileList.
C2_Witness ==
    \E p \in Procs :
        /\ HashResolved(sync[p])
        /\ CachedPaths(sync[p].startCache) = {}
        /\ sync[p].cachedHash = sync[p].lastHash
        /\ Called(sync[p], "fetchFileList")

\* C3: after a sync that returns without failure, every path cached at its start and
\* absent from its allFiles is out of the file cache, also when allFiles is empty.
C3_UnusedPathsDeleted ==
    \A p \in Procs :
        LET s == sync[p]
        IN  s.pc = "done" =>
                \A q \in CachedPaths(s.startCache) :
                    q \notin PathsOf(s.fileList.allFiles) => fileCache[q] = NoRec

\* C4: a sync that follows a completed sync, with the remote unchanged since that one
\* started and a cache record with metadata for every file of its list, publishes
\* what that one published and does not call fetchFileContents.
C4_Idempotent ==
    \A p \in Procs :
        LET s == sync[p]
        IN  (/\ s.pc = "done"
             /\ s.before.fresh
             /\ s.stable
             /\ \A i \in 1..Len(s.fileList.allFiles) :
                   /\ s.startCache[s.fileList.allFiles[i].path] # NoRec
                   /\ s.startCache[s.fileList.allFiles[i].path].meta # Absent)
                => /\ allEntries = s.before.entries
                   /\ allAssets = s.before.assets
                   /\ ~Called(s, "fetchFileContents")

\* C5: when the classified file list is empty, the sync publishes no entry and no
\* asset, sets dataLoaded, returns without failure and never calls fetchFileContents.
C5_EmptyListPublishesNothing ==
    \A p \in Procs :
        LET s == sync[p]
        IN  (HasFileList(s) /\ s.fileList.count = 0)
                => /\ s.pc = "done"
                   /\ allEntries = {}
                   /\ allAssets = {}
                   /\ dataLoaded
                   /\ ~Called(s, "fetchFileContents")

\* C5 witness: a sync that follows one which published entries finds an empty remote
\* listing and returns.
C5_Witness ==
    \E p \in Procs :
        /\ sync[p].pc = "done"
        /\ Called(sync[p], "fetchFileList")
        /\ sync[p].fileList.count = 0
        /\ sync[p].before.entries # {}
        /\ allEntries = {}
        /\ dataLoaded

\* C10: on the full-refresh path last_commit_hash is set to the resolved hash once
\* fetchFileList has returned and before fetchFileContents is called, and is still set
\* when fetchFileContents fails; on the cache-hit path it is not set.
C10_HashWrittenAfterListing ==
    \A p \in Procs :
        LET s == sync[p]
        IN  /\ (HasFileList(s) /\ Called(s, "fetchFileList"))
                  => /\ LogIndex(s, "fetchFileList") < LogIndex(s, "setLastCommitHash")
                     /\ Called(s, "fetchFileContents")
                           => LogIndex(s, "setLastCommitHash")
                                  < LogIndex(s, "fetchFileContents")
                     /\ metaHash = s.lastHash
            /\ (HasFileList(s) /\ ~Called(s, "fetchFileList"))
                  => ~Called(s, "setLastCommitHash")
            /\ ~HasFileList(s) => ~Called(s, "setLastCommitHash")

\* C10 witness: fetchFileContents has failed after a full listing, and the stored
\* hash is the resolved one, different from the one stored before.
C10_Witness ==
    \E p \in Procs :
        /\ sync[p].pc = "failed"
        /\ sync[p].failedAt = "contents"
        /\ Called(sync[p], "setLastCommitHash")
        /\ sync[p].cachedHash # sync[p].lastHash
        /\ sync[p].cachedHash # NoHash
        /\ metaHash = sync[p].lastHash

\* The entry and asset paths of a remote tree under the configuration stores.
ClassifiedPaths(tree) == PathsOf(SyncFileList(FetchFileList(tree)).allFiles)

\* C11: when the previous sync failed after writing last_commit_hash and the file
\* cache holds a record, a sync that resolves that same hash does not call
\* fetchFileList and builds its file list from the cache records only.
C11_CacheHitAfterAbortedRefresh ==
    \A p \in Procs :
        LET s == sync[p]
        IN  (/\ HashResolved(s)
             /\ s.before.abortedHash = s.lastHash
             /\ CachedPaths(s.startCache) # {})
                => /\ ~Called(s, "fetchFileList")
                   /\ HasFileList(s) =>
                         PathsOf(s.fileList.allFiles) \subseteq CachedPaths(s.startCache)

\* C11 witness: such a sync has returned, and a file of the remote tree that the
\* aborted sync was to fetch is missing from its file list.
C11_Witness ==
    \E p \in Procs :
        /\ sync[p].pc = "done"
        /\ sync[p].before.abortedHash = sync[p].lastHash
        /\ CachedPaths(sync[p].startCache) # {}
        /\ ~Called(sync[p], "fetchFileList")
        /\ sync[p].stable
        /\ ClassifiedPaths(remoteTree) \ PathsOf(sync[p].fileList.allFiles) # {}

\* The collaborator awaited at a position of fetchAndParseFiles.
CollaboratorAt(pc) ==
    CASE pc = "branch" -> "fetchDefaultBranchName"
      [] pc = "hash" -> "fetchLastCommitHash"
      [] pc = "list" -> "fetchFileList"
      [] pc = "contents" -> "fetchFileContents"
      [] OTHER -> "none"

\* C12: when a collaborator fails, the sync fails at that call, has made no call
\* twice, publishes nothing, leaves dataLoaded as it was and neither writes nor deletes
\* a file-cache record.
C12_FailureLeavesOutputsAndCache ==
    \A p \in Procs :
        LET s == sync[p]
        IN  s.pc = "failed" =>
                /\ s.log # <<>>
                /\ s.log[Len(s.log)] = CollaboratorAt(s.failedAt)
                /\ \A i, j \in 1..Len(s.log) : i # j => s.log[i] # s.log[j]
                /\ ~Called(s, "publish")
                /\ ~Called(s, "saveEntries")
                /\ ~Called(s, "deleteEntries")
                /\ allEntries = s.startEntries
                /\ allAssets = s.startAssets
                /\ dataLoaded = s.startLoaded
                /\ fileCache = s.startCache

\* C12 witness: fetchFileContents has failed in a sync that started with published
\* entries and cache records.
C12_Witness ==
    \E p \in Procs :
        /\ sync[p].pc = "failed"
        /\ sync[p].failedAt = "contents"
        /\ sync[p].startEntries # {}
        /\ sync[p].startLoaded
        /\ CachedPaths(sync[p].startCache) # {}
        /\ allEntries = sync[p].startEntries

\* The classified files of a sync that no cache record with the same path and the
\* same content hash gives metadata to.
WithoutCachedMeta(s) ==
    {q \in SyncPaths :
        /\ s.listedSha[q] # NoSha
        /\ \/ s.cachedFileEntries[q] = NoRec
           \/ s.cachedFileEntries[q].sha # s.listedSha[q]
           \/ s.cachedFileEntries[q].meta = Absent}

\* C13: the files handed to fetchFileContents are exactly the classified files left
\* without metadata by the cache records of the same path and content hash;
\* fetchFileContents is called only when there is such a file; a file whose cache
\* record has another content hash is among them.
C13_FetchesExactlyTheDelta ==
    \A p \in Procs :
        LET s == sync[p]
        IN  HasFileList(s) =>
                /\ PathsOf(s.fetchingFiles) = WithoutCachedMeta(s)
                /\ Called(s, "fetchFileContents") <=> WithoutCachedMeta(s) # {}
                /\ \A q \in SyncPaths :
                      (/\ s.listedSha[q] # NoSha
                       /\ s.cachedFileEntries[q] # NoRec
                       /\ s.cachedFileEntries[q].sha # s.listedSha[q])
                          => \E j \in 1..Len(s.fetchingFiles) :
                                /\ s.fetchingFiles[j].path = q
                                /\ s.fetchingFiles[j].sha = s.listedSha[q]

\* C13 witness: of two classified files one is restored from its cache record and the
\* other, whose cache record has another content hash, is fetched.
C13_Witness ==
    \E p \in Procs :
        /\ sync[p].pc = "done"
        /\ sync[p].fileList.count = 2
        /\ Len(sync[p].fetchingFiles) = 1
        /\ sync[p].cachedFileEntries[sync[p].fetchingFiles[1].path] # NoRec
        /\ sync[p].cachedFileEntries[sync[p].fetchingFiles[1].path].sha
               # sync[p].listedSha[sync[p].fetchingFiles[1].path]

(***************************************************************************)
(* Lines 144-148 and 153-182 for one file on its own: any listed file, any *)
(* cache record and any fetched record of its path.                        *)
(***************************************************************************)
\* Values by origin, so that the origin of a merged field shows.
ListedValue == 3
CachedValue == 1
FetchedValue == 2

\* The records a store or a collaborator can hold for a path: any field may be missing.
RecordsOf(value) ==
    {[sha |-> sha, meta |-> meta, text |-> text, size |-> size] :
        sha \in {1, 2}, meta \in {Absent, value}, text \in {Absent, value},
        size \in {Absent, value}}

MergeInputs ==
    {[type |-> type, sha |-> sha, size |-> size, rec |-> rec, fetched |-> fetched] :
        type \in {"entry", "asset"}, sha \in {1, 2}, size \in {Absent, ListedValue},
        rec \in RecordsOf(CachedValue) \cup {NoRec},
        fetched \in {r \in RecordsOf(FetchedValue) : r.sha = 1} \cup {NoRec}}

\* The classified file of a merge input, as createFileList returns it.
ListedFile(in) ==
    LET path == IF in.type = "entry" THEN PathAM ELSE PathCG
        fl == SyncFileList(<<[FileInfo(path, in.sha) EXCEPT !.size = in.size]>>)
    IN  fl.allFiles[1]

\* The map that holds record rec for the path and nothing else.
OnlyRecord(path, rec) == [q \in SyncPaths |-> IF q = path THEN rec ELSE NoRec]

InitMerge ==
    /\ allEntryFolders = SyncEntryFolders
    /\ allAssetFolders = SyncAssetFolders
    /\ files = <<>>
    /\ fileList = EmptyFileList
    /\ remoteTree = [q \in SyncPaths |-> NoSha]
    /\ repository = RepositoryInfo
    /\ InitSyncState
    /\ mergeIn \in MergeInputs
    /\ mergeOut = NoMerge
    /\ InitNoI18n

\* The file goes through the restore of line 144 and the map of line 155 or 169.
MergeOneFile ==
    /\ mergeOut = NoMerge
    /\ LET file == ListedFile(mergeIn)
           restored == RestoreCached(file, OnlyRecord(file.path, mergeIn.rec))
           fetchedFileMap == OnlyRecord(file.path, mergeIn.fetched)
       IN  mergeOut' = IF mergeIn.type = "entry"
                       THEN EntryFilesToParse(<<restored>>, fetchedFileMap)[1]
                       ELSE AssetFilesToParse(<<restored>>, fetchedFileMap)[1]
    /\ UNCHANGED <<allEntryFolders, allAssetFolders, files, fileList, mergeIn, i18nVars>>
    /\ UNCHANGED syncVars

NextMerge == MergeOneFile

SpecMerge == InitMerge /\ [][NextMerge]_vars

\* The value of a field after the cache merge: the one of the cache record when the
\* record has the content hash of the file and has the field, else the listed one.
AfterCacheMerge(in, listed, cached) ==
    IF in.rec # NoRec /\ in.rec.sha = in.sha /\ cached # Absent THEN cached ELSE listed

\* The value the claim gives a field handed to the parser.
KeptOrFetched(after, fetched) == IF after # Absent THEN after ELSE fetched

\* C14: in the file handed to the parser, text, metadata and (for an asset) size hold
\* the value restored from the hash-matching cache record whenever there is one,
\* whatever fetchFileContents returned; the fetched value only fills an absent field.
C14_CachedValuesKept ==
    mergeOut # NoMerge =>
        /\ mergeOut.text = KeptOrFetched(AfterCacheMerge(mergeIn, Absent, mergeIn.rec.text),
                                         mergeIn.fetched.text)
        /\ mergeOut.meta = KeptOrFetched(AfterCacheMerge(mergeIn, Absent, mergeIn.rec.meta),
                                         mergeIn.fetched.meta)
        /\ mergeIn.type = "asset" =>
              mergeOut.size = KeptOrFetched(
                                  AfterCacheMerge(mergeIn, mergeIn.size, mergeIn.rec.size),
                                  mergeIn.fetched.size)

\* C14 witness: the cache record gave the text, fetchFileContents returned a text and
\* metadata, and the parser gets the cached text and the fetched metadata.
C14_Witness ==
    /\ mergeOut # NoMerge
    /\ mergeIn.rec # NoRec
    /\ mergeIn.rec.sha = mergeIn.sha
    /\ mergeIn.rec.text = CachedValue
    /\ mergeIn.rec.meta = Absent
    /\ mergeIn.fetched.text = FetchedValue
    /\ mergeIn.fetched.meta = FetchedValue
    /\ mergeOut.text = CachedValue
    /\ mergeOut.meta = FetchedValue

(***************************************************************************)
(* The repository argument (checked under Spec).                           *)
(***************************************************************************)
\* fetchDefaultBranchName has returned in invocation s.
BranchResolved(s) == Called(s, "fetchDefaultBranchName") /\ s.pc # "branch" /\ s.failedAt # "branch"

\* C15: over syncs that follow one another on one repository object,
\* fetchDefaultBranchName is called only in a sync that started with branch unset and
\* never after it has returned a non-empty name; its result is in repository.branch, its
\* call comes before that of fetchLastCommitHash, and no other field of the repository
\* object differs from what the sync started with.
C15_BranchResolvedOnceAndStored ==
    \A p \in SeqProcs :
        LET s == sync[p]
        IN  /\ Called(s, "fetchDefaultBranchName") =>
                  /\ s.startRepository.branch = ""
                  /\ ~s.before.branchNamed
                  /\ \A i \in 1..Len(s.log) :
                        s.log[i] = "fetchLastCommitHash" =>
                            LogIndex(s, "fetchDefaultBranchName") < i
            /\ BranchResolved(s) => repository.branch = s.branch
            /\ s.pc # "idle" =>
                  /\ [repository EXCEPT !.branch = ""] = [s.startRepository EXCEPT !.branch = ""]
                  /\ ~Called(s, "fetchDefaultBranchName") => repository = s.startRepository

\* C15 witness: an earlier sync got a non-empty name from fetchDefaultBranchName, and
\* this one has run to its end on the stored branch without calling it.
C15_Witness ==
    LET s == sync[1]
    IN  /\ s.pc = "done"
        /\ s.before.branchNamed
        /\ s.startRepository.branch = "main"
        /\ Called(s, "fetchLastCommitHash")
        /\ ~Called(s, "fetchDefaultBranchName")

(***************************************************************************)
(* The file cache and the published paths after a sync (checked under Spec). *)
(***************************************************************************)
\* C17: after a sync that returns without a failure on a non-empty classified list, the
\* paths of the file cache are the paths of the unified file list of that sync: the
\* fetched files have been written and no record of another path is left.
C17_CachePathsAreListPaths ==
    \A p \in SeqProcs :
        LET s == sync[p]
        IN  (s.pc = "done" /\ s.fileList.count > 0) =>
                /\ CachedPaths(fileCache) = PathsOf(s.fileList.allFiles)
                /\ \A i \in 1..Len(s.fetchingFiles) :
                      fileCache[s.fetchingFiles[i].path] = s.fetchedFileMap[s.fetchingFiles[i].path]

\* C17 witness: a sync has returned after it saved the record of a path that was not in
\* the cache and deleted the record of a path that was.
C17_Witness ==
    LET s == sync[1]
    IN  /\ s.pc = "done"
        /\ s.fileList.count > 0
        /\ Called(s, "saveEntries")
        /\ Called(s, "deleteEntries")
        /\ CachedPaths(s.startCache) \ CachedPaths(fileCache) # {}
        /\ CachedPaths(fileCache) \ CachedPaths(s.startCache) # {}

\* The paths a sync has published.
PublishedPaths(s) == {f.path : f \in s.pubEntries \cup s.pubAssets}

\* C18: when no sync so far has failed, the paths a sync publishes are the classified
\* paths of the remote tree at the commit hash it resolved; a path deleted from the
\* remote is not published again.  Stated for syncs during which the remote stood still.
C18_PublishedPathsAreRemotePaths ==
    \A p \in SeqProcs :
        LET s == sync[p]
        IN  (s.pc = "done" /\ s.stable /\ ~prev.anyFailed) =>
                PublishedPaths(s) = ClassifiedPaths(remoteTree)

(***************************************************************************)
(* Two invocations on one repository that the caller does not await one    *)
(* after the other: between two awaits of one, the other may run.          *)
(***************************************************************************)
\* Each of the two invocations is called once.
StartOnce(p) ==
    /\ sync[p].pc = "idle"
    /\ Start(p)

\* The remote gets one commit while the two invocations run.
RemoteCommitOnce ==
    /\ remoteHash = 1
    /\ RemoteCommit

\* The two invocations start on a remote that holds one entry file.
InitConc ==
    /\ Init
    /\ remoteTree = [q \in SyncPaths |-> IF q = PathAM THEN 1 ELSE NoSha]

NextConc ==
    \/ \E p \in Procs :
          \/ StartOnce(p)
          \/ MetaGetReturns(p)
          \/ CacheEntriesReturns(p)
          \/ BranchReturns(p)
          \/ HashReturns(p)
          \/ FileListReturns(p)
          \/ FileContentsReturns(p)
          \/ SaveEntriesReturns(p)
          \/ CollaboratorFails(p)
    \/ RemoteCommitOnce

SpecConc == InitConc /\ [][NextConc]_vars

\* The invocation whose publish step ran last.
LastPublisher == CHOOSE p \in Procs : \A q \in Procs : sync[q].published <= sync[p].published

\* C16: when two invocations interleave, once both have finished the published entries
\* and assets are those of the invocation whose publish step ran last, whichever of the
\* two resolved the newer commit hash.
C16_LastPublisherWins ==
    ((\A p \in Procs : sync[p].pc \in {"done", "failed"}) /\ sync[LastPublisher].published > 0)
        => /\ allEntries = sync[LastPublisher].pubEntries
           /\ allAssets = sync[LastPublisher].pubAssets

\* C16 witness: both invocations have returned, the one that resolved the older commit
\* hash published last, and its outputs, not those of the other, are the published ones.
C16_Witness ==
    /\ sync[1].pc = "done"
    /\ sync[2].pc = "done"
    /\ sync[1].published = 2
    /\ sync[2].published = 1
    /\ sync[1].lastHash < sync[2].lastHash
    /\ allEntries = sync[1].pubEntries
    /\ allEntries # sync[2].pubEntries

(***************************************************************************)
(* getI18nConfig.  A raw i18n value is undefined, true, or an object with  *)
(* the own properties listed in its field own.                             *)
(***************************************************************************)
I18nKeys == {"structure", "locales", "default_locale", "save_all_locales"}

\* isObject of $lib/services/utils/misc.
IsObject(value) == value.kind = "object"

\* The truth value of a raw i18n value in a condition.
Truthy(value) == value.kind # "undefined"

\* Object.assign(target, source) for an object source: the own properties of the source
\* are set on the target.
ObjectAssign(target, source) ==
    [kind |-> "object",
     own |-> target.own \cup source.own,
     structure |-> IF "structure" \in source.own THEN source.structure ELSE target.structure,
     locales |-> IF "locales" \in source.own THEN source.locales ELSE target.locales,
     default_locale |-> IF "default_locale" \in source.own
                        THEN source.default_locale ELSE target.default_locale,
     save_all_locales |-> IF "save_all_locales" \in source.own
                          THEN source.save_all_locales ELSE target.save_all_locales]

\* Variant of DefaultLocaleOf that does not look the configured locale up in locales.
DefaultLocaleUnchecked(i18nEnabled, defaultLocale, locales) ==
    IF ~i18nEnabled THEN "_default"
    ELSE IF defaultLocale # "" THEN defaultLocale
    ELSE locales[1]

\* Lines 66-70.  An undefined defaultLocale is the empty string here: both are falsy.
DefaultLocaleOf(i18nEnabled, defaultLocale, locales) ==
    IF ~i18nEnabled THEN "_default"
    ELSE IF defaultLocale # "" /\ defaultLocale \in Range(locales) THEN defaultLocale
    ELSE locales[1]

\* Lines 52-74: config is the raw configuration or undefined, hasFile tells whether the
\* file argument was given.
NormalizeI18n(config, hasFile) ==
    LET has(key) == IsObject(config) /\ key \in config.own
        structure == IF has("structure") THEN config.structure ELSE "single_file"
        locales == IF has("locales") THEN config.locales ELSE <<>>
        defaultLocale == IF has("default_locale") THEN config.default_locale ELSE ""
        saveAllLocales == IF has("save_all_locales") THEN config.save_all_locales ELSE TRUE
        i18nEnabled == Len(locales) # 0
    IN  [i18nEnabled |-> i18nEnabled,
         saveAllLocales |-> saveAllLocales,
         locales |-> IF i18nEnabled THEN locales ELSE <<"_default">>,
         defaultLocale |-> DefaultLocaleOf(i18nEnabled, defaultLocale, locales),
         structure |-> IF hasFile THEN "single_file" ELSE structure]

\* Lines 26-50: the site configuration after the call and the value of config.  config
\* is the object _siteConfig.i18n itself, so what Object.assign sets is set on the
\* site configuration.
MergeI18n(site, collection, file) ==
    IF ~IsObject(site.i18n)
    THEN [site |-> site, config |-> UndefinedValue]
    ELSE IF ~Truthy(collection)
    THEN [site |-> site, config |-> UndefinedValue]
    ELSE LET withCollection == IF IsObject(collection)
                               THEN ObjectAssign(site.i18n, collection) ELSE site.i18n
         IN  IF ~file.present
             THEN [site |-> [site EXCEPT !.i18n = withCollection], config |-> withCollection]
             ELSE IF ~Truthy(file.i18n)
             THEN [site |-> [site EXCEPT !.i18n = withCollection], config |-> UndefinedValue]
             ELSE LET withFile == IF IsObject(file.i18n)
                                  THEN ObjectAssign(withCollection, file.i18n)
                                  ELSE withCollection
                  IN  [site |-> [site EXCEPT !.i18n = withFile], config |-> withFile]

\* getI18nConfig(collection, file) on the site configuration site.
GetI18nConfig(site, collection, file) ==
    LET merged == MergeI18n(site, collection, file)
    IN  [site |-> merged.site, result |-> NormalizeI18n(merged.config, file.present)]

\* The raw i18n objects over the given values; a value counts only for an own property.
RawObjects(structures, localeLists, defaults, saves) ==
    {[kind |-> "object",
      own |-> own,
      structure |-> IF "structure" \in own THEN st ELSE "",
      locales |-> IF "locales" \in own THEN ls ELSE <<>>,
      default_locale |-> IF "default_locale" \in own THEN df ELSE "",
      save_all_locales |-> IF "save_all_locales" \in own THEN sv ELSE FALSE] :
        own \in SUBSET I18nKeys, st \in structures, ls \in localeLists, df \in defaults,
        sv \in saves}

LocaleLists == {<<>>, <<"en">>, <<"en", "fr">>}

\* i18n of the site configuration: not set, or an object.
SiteI18nChoices ==
    {UndefinedValue} \cup RawObjects({"multiple_files"}, LocaleLists, {"fr", "de"}, {FALSE})

\* i18n of a collection: not set, true, or an object that overrides the site's.
CollectionI18nChoices ==
    {UndefinedValue, TrueValue}
        \cup {o \in RawObjects({""}, {<<>>, <<"fr">>}, {"fr"}, {FALSE}) :
                 o.own \subseteq {"locales", "default_locale"}}

\* The file argument: not given, or a collection file whose i18n is not set, true, or an
\* object.
FileChoices ==
    {NoFile} \cup
    {[present |-> TRUE, i18n |-> v] :
        v \in {UndefinedValue, TrueValue}
                \cup {o \in RawObjects({""}, {<<"en">>}, {"en"}, {FALSE}) :
                         o.own \in {{"locales"}, {"default_locale"}}}}

InitI18n ==
    /\ allEntryFolders = SyncEntryFolders
    /\ allAssetFolders = SyncAssetFolders
    /\ files = <<>>
    /\ fileList = EmptyFileList
    /\ remoteTree = [q \in SyncPaths |-> NoSha]
    /\ repository = RepositoryInfo
    /\ InitSyncState
    /\ InitNoMerge
    /\ \E i18n \in SiteI18nChoices :
          /\ siteConfig = [i18n |-> i18n]
          /\ i18nCall = [NoCall EXCEPT !.initial = i18n, !.site = i18n]

\* A call of getI18nConfig(collection, file).
CallGetI18nConfig ==
    /\ \E collection \in CollectionI18nChoices, file \in FileChoices :
          LET call == GetI18nConfig(siteConfig, collection, file)
          IN  /\ siteConfig' = call.site
              /\ i18nCall' = [called |-> TRUE, initial |-> i18nCall.initial,
                              site |-> siteConfig.i18n, collection |-> collection,
                              file |-> file, result |-> call.result]
    /\ UNCHANGED <<allEntryFolders, allAssetFolders, files, fileList, mergeVars>>
    /\ UNCHANGED syncVars

NextI18n == CallGetI18nConfig

SpecI18n == InitI18n /\ [][NextI18n]_vars

\* C19: a call of getI18nConfig leaves the site configuration as it was, and its result
\* is the one the same arguments give on the site configuration before any call.
C19_SiteConfigUnchanged ==
    i18nCall.called =>
        /\ siteConfig.i18n = i18nCall.initial
        /\ i18nCall.result =
               GetI18nConfig([i18n |-> i18nCall.initial], i18nCall.collection,
                             i18nCall.file).result

\* The raw configurations that apply to a call, the most specific last; none when i18n
\* is not set on the site, on the collection, or on the file that was given.
LayersInEffect(c) ==
    IF ~IsObject(c.site) \/ ~Truthy(c.collection) \/ (c.file.present /\ ~Truthy(c.file.i18n))
    THEN <<>>
    ELSE SelectSeq(<<c.site, c.collection, c.file.i18n>>, IsObject)

\* The locales in effect: those of the most specific layer that has the property.
RECURSIVE LocalesInEffect(_)
LocalesInEffect(layers) ==
    IF layers = <<>> THEN <<>>
    ELSE IF "locales" \in layers[Len(layers)].own THEN layers[Len(layers)].locales
    ELSE LocalesInEffect(SubSeq(layers, 1, Len(layers) - 1))

\* The default_locale in effect, the empty string when there is none.
RECURSIVE DefaultInEffect(_)
DefaultInEffect(layers) ==
    IF layers = <<>> THEN ""
    ELSE IF "default_locale" \in layers[Len(layers)].own
    THEN layers[Len(layers)].default_locale
    ELSE DefaultInEffect(SubSeq(layers, 1, Len(layers) - 1))

\* C20: getI18nConfig returns a non-empty locales list and a defaultLocale in it.  With
\* no locales in effect i18nEnabled is false, locales is ['_default'] and defaultLocale
\* '_default'; else locales are those in effect and defaultLocale is the default_locale
\* in effect when it is one of them, the first of them when it is not.
C20_LocalesAndDefault ==
    i18nCall.called =>
        LET r == i18nCall.result
            locales == LocalesInEffect(LayersInEffect(i18nCall))
            default == DefaultInEffect(LayersInEffect(i18nCall))
        IN  /\ r.locales # <<>>
            /\ r.defaultLocale \in Range(r.locales)
            /\ locales = <<>> =>
                  /\ ~r.i18nEnabled
                  /\ r.locales = <<"_default">>
                  /\ r.defaultLocale = "_default"
            /\ locales # <<>> =>
                  /\ r.i18nEnabled
                  /\ r.locales = locales
                  /\ r.defaultLocale = IF default \in Range(locales) THEN default ELSE locales[1]

\* C20 witness: the default_locale in effect is not one of the locales in effect, and
\* the first locale is returned as defaultLocale.
C20_Witness ==
    /\ i18nCall.called
    /\ LocalesInEffect(LayersInEffect(i18nCall)) = <<"en", "fr">>
    /\ DefaultInEffect(LayersInEffect(i18nCall)) = "de"
    /\ i18nCall.result.defaultLocale = "en"
    /\ i18nCall.result.i18nEnabled

====
